---- MODULE Spec2Model ----
(***************************************************************************)
(* chanleakcheck: the audit performed by main() in main.go.                *)
(*                                                                         *)
(* The program lists the node's open channels, builds the subjective      *)
(* channel view, checks every channel of the view against the channel     *)
(* graph, and, when some channel is invalid, folds the forwarding history *)
(* into chanForwardHistory and sums it into totalLoss.                    *)
(*                                                                         *)
(* Amounts are satoshi values far below 2^63, so btcutil.Amount (int64)   *)
(* arithmetic is modelled on the integers.                                 *)
(***************************************************************************)
EXTENDS Integers, Sequences, FiniteSets, TLC

(* ------------------------------ bounds -------------------------------- *)

\* number of distinct short channel IDs that occur in any RPC response
MaxChan == 2

\* longest ListChannels response
MaxListed == 2

\* longest ForwardingHistory response
MaxEvents == 2

Chans == 1..MaxChan

\* channel capacities reported by ListChannels and by the channel graph
Caps == {400000, 500000}

\* (AmtIn, Fee, AmtOut) of the forwarding events the node may report
FwdAmounts == {<<100000, 100, 99900>>, <<1000, 10, 990>>, <<1000, 10, 900>>}

(* ------------------------------ helpers ------------------------------- *)

RECURSIVE SeqsOfLen(_, _)
SeqsOfLen(S, n) ==
    IF n = 0 THEN {<<>>}
    ELSE {Append(s, x) : s \in SeqsOfLen(S, n - 1), x \in S}

SeqsUpTo(S, n) == UNION {SeqsOfLen(S, k) : k \in 0..n}

\* the empty Go map
EmptyMap == <<>>

\* m[k] of a Go map with integer values: the zero value when k is absent
MapGet(m, k) == IF k \in DOMAIN m THEN m[k] ELSE 0

\* m[k] = v
MapSet(m, k, v) == [x \in DOMAIN m \cup {k} |-> IF x = k THEN v ELSE m[x]]

\* m[k] += d
MapAdd(m, k, d) == MapSet(m, k, MapGet(m, k) + d)

\* one line written by the log package
LogRec(kind, a, b) == [kind |-> kind, a |-> a, b |-> b]

(* --------------------------- RPC responses ---------------------------- *)

\* lnrpc.Channel: ChanId and Capacity
ListedChannel == [ChanId : Chans, Capacity : Caps]

ListResponses == SeqsUpTo(ListedChannel, MaxListed)

\* GetChanInfo: an error, or the edge with its capacity
GraphResults == {[err |-> TRUE, Capacity |-> 0]}
                    \cup {[err |-> FALSE, Capacity |-> c] : c \in Caps}

\* lnrpc.ForwardingEvent
ForwardingEvent ==
    {[ChanIdIn |-> i, ChanIdOut |-> o, AmtIn |-> a[1], Fee |-> a[2],
      AmtOut |-> a[3]] : i \in Chans, o \in Chans, a \in FwdAmounts}

FwdResponses == SeqsUpTo(ForwardingEvent, MaxEvents)

(* ------------------------------ state --------------------------------- *)

VARIABLES
    pc,                  \* position of main()
    subjectiveChanView,  \* map cid -> capacity the node believes
    pending,             \* keys of subjectiveChanView the range loop has yet to visit
    graphResult,         \* cid -> what GetChanInfo returned for it
    queried,             \* cid -> number of GetChanInfo calls made for it
    invalidChannels,     \* set of cids
    fwdCalls,            \* number of ForwardingHistory calls made
    fwdEvents,           \* forwardingHistory.ForwardingEvents
    idx,                 \* position of the range loop over fwdEvents
    chanForwardHistory,  \* map cid -> amount
    reported,            \* keys of chanForwardHistory the report loop has visited
    totalLoss,
    log                  \* set of lines written so far

vars == <<pc, subjectiveChanView, pending, graphResult, queried,
          invalidChannels, fwdCalls, fwdEvents, idx, chanForwardHistory,
          reported, totalLoss, log>>

(* ------------------------- pure parts of main ------------------------- *)

\* the loop that fills subjectiveChanView; a repeated ChanId is overwritten
RECURSIVE BuildView(_)
BuildView(resp) ==
    IF resp = <<>> THEN EmptyMap
    ELSE LET n == Len(resp)
         IN  MapSet(BuildView(SubSeq(resp, 1, n - 1)),
                    resp[n].ChanId, resp[n].Capacity)

\* variant: a failed lookup is not taken as evidence
IsInvalidMismatchOnly(res, subjectiveSize) ==
    ~res.err /\ res.Capacity # subjectiveSize

\* the two ways a channel becomes invalid
IsInvalid(res, subjectiveSize) ==
    res.err \/ res.Capacity # subjectiveSize

\* the lines the detector writes for one channel
DetectLog(cid, res, subjectiveSize) ==
    IF res.err
    THEN {LogRec("unable to obtain graph channel", cid, 0)}
    ELSE IF res.Capacity # subjectiveSize
         THEN {LogRec("FAKE CHANNEL FOUND", res.Capacity, subjectiveSize)}
         ELSE {}

\* variant: a failed lookup ends the loop (break instead of continue)
RemainingBreakOnError(p, cid, res) == IF res.err THEN {} ELSE p \ {cid}

\* the keys the range loop still visits after the query of cid returned res
RemainingAfterQuery(p, cid, res) == p \ {cid}

\* variant: the early return taken on the inverted test
NoInvalidChannelsInverted(inv) == Cardinality(inv) # 0

\* len(invalidChannels) == 0
NoInvalidChannels(inv) == Cardinality(inv) = 0

\* position after the ListChannels call
AfterListChannels(ok) == IF ok THEN "detect" ELSE "fatal"

\* variant: the error of ForwardingHistory is logged but not fatal
AfterForwardingHistoryNotFatal(ok) == "fold"

\* position after the ForwardingHistory call
AfterForwardingHistory(ok) == IF ok THEN "fold" ELSE "fatal"

\* the event touches no invalid channel
SkipEvent(inv, ev) ==
    ~((ev.ChanIdIn \in inv) \/ (ev.ChanIdOut \in inv))

\* variant: the skip is missing
FoldEventNoSkip(m, inv, ev) ==
    LET m1 == MapAdd(m, ev.ChanIdIn, -(ev.AmtIn - ev.Fee))
    IN  MapAdd(m1, ev.ChanIdOut, ev.AmtOut)

\* variant: the fee is not deducted from the inbound amount
FoldEventFeeKept(m, inv, ev) ==
    IF SkipEvent(inv, ev) THEN m
    ELSE LET m1 == MapAdd(m, ev.ChanIdIn, -ev.AmtIn)
         IN  MapAdd(m1, ev.ChanIdOut, ev.AmtOut)

\* variant: the outbound entry is assigned, not accumulated
FoldEventAssignOut(m, inv, ev) ==
    IF SkipEvent(inv, ev) THEN m
    ELSE LET m1 == MapAdd(m, ev.ChanIdIn, -(ev.AmtIn - ev.Fee))
         IN  MapSet(m1, ev.ChanIdOut, ev.AmtOut)

\* variant: each leg is booked only when its own channel is invalid
FoldEventPerLeg(m, inv, ev) ==
    LET m1 == IF ev.ChanIdIn \in inv
              THEN MapAdd(m, ev.ChanIdIn, -(ev.AmtIn - ev.Fee))
              ELSE m
    IN  IF ev.ChanIdOut \in inv
        THEN MapAdd(m1, ev.ChanIdOut, ev.AmtOut)
        ELSE m1

\* the body of the loop over the forwarding events
FoldEvent(m, inv, ev) ==
    IF SkipEvent(inv, ev) THEN m
    ELSE LET m1 == MapAdd(m, ev.ChanIdIn, -(ev.AmtIn - ev.Fee))
         IN  MapAdd(m1, ev.ChanIdOut, ev.AmtOut)

(* ------------------------------ actions ------------------------------- *)

Init ==
    /\ pc = "client"
    /\ subjectiveChanView = EmptyMap
    /\ pending = {}
    /\ graphResult = EmptyMap
    /\ queried = [c \in Chans |-> 0]
    /\ invalidChannels = {}
    /\ fwdCalls = 0
    /\ fwdEvents = <<>>
    /\ idx = 1
    /\ chanForwardHistory = EmptyMap
    /\ reported = {}
    /\ totalLoss = 0
    /\ log = {}

\* lndclient.NewBasicClient
NewBasicClient ==
    /\ pc = "client"
    /\ \E ok \in BOOLEAN :
          IF ok
          THEN /\ pc' = "list"
               /\ log' = log
          ELSE /\ pc' = "fatal"
               /\ log' = log \cup {LogRec("unable to create client", 0, 0)}
    /\ UNCHANGED <<subjectiveChanView, pending, graphResult, queried,
                   invalidChannels, fwdCalls, fwdEvents, idx,
                   chanForwardHistory, reported, totalLoss>>

\* ListChannels and the construction of the subjective view
ListChannels ==
    /\ pc = "list"
    /\ \E ok \in BOOLEAN :
          /\ pc' = AfterListChannels(ok)
          /\ IF ok
             THEN \E resp \in ListResponses :
                     /\ subjectiveChanView' = BuildView(resp)
                     /\ pending' = DOMAIN BuildView(resp)
                     /\ log' = log \cup {LogRec("Obtaining candidate set", 0, 0),
                                         LogRec("Filtering out valid channels", 0, 0)}
             ELSE /\ log' = log \cup {LogRec("unable to obtain channels", 0, 0)}
                  /\ UNCHANGED <<subjectiveChanView, pending>>
    /\ UNCHANGED <<graphResult, queried, invalidChannels, fwdCalls, fwdEvents,
                   idx, chanForwardHistory, reported, totalLoss>>

\* one iteration of the loop over subjectiveChanView
GetChanInfo ==
    /\ pc = "detect"
    /\ \E cid \in pending, res \in GraphResults :
          LET subjectiveSize == subjectiveChanView[cid]
          IN  /\ graphResult' = MapSet(graphResult, cid, res)
              /\ queried' = [queried EXCEPT ![cid] = @ + 1]
              /\ invalidChannels' =
                    IF IsInvalid(res, subjectiveSize)
                    THEN invalidChannels \cup {cid}
                    ELSE invalidChannels
              /\ log' = log \cup DetectLog(cid, res, subjectiveSize)
              /\ pending' = RemainingAfterQuery(pending, cid, res)
    /\ UNCHANGED <<pc, subjectiveChanView, fwdCalls, fwdEvents, idx,
                   chanForwardHistory, reported, totalLoss>>

\* the end of the loop: the count of invalid channels and the early return
CheckInvalid ==
    /\ pc = "detect"
    /\ pending = {}
    /\ IF NoInvalidChannels(invalidChannels)
       THEN /\ pc' = "done"
            /\ log' = log \cup {LogRec("Num invalid channels found",
                                       Cardinality(invalidChannels), 0),
                                LogRec("not affected", 0, 0)}
       ELSE /\ pc' = "history"
            /\ log' = log \cup {LogRec("Num invalid channels found",
                                       Cardinality(invalidChannels), 0),
                                LogRec("Quantifying amount lost", 0, 0)}
    /\ UNCHANGED <<subjectiveChanView, pending, graphResult, queried,
                   invalidChannels, fwdCalls, fwdEvents, idx,
                   chanForwardHistory, reported, totalLoss>>

\* the ForwardingHistory call
ForwardingHistory ==
    /\ pc = "history"
    /\ fwdCalls' = fwdCalls + 1
    /\ \E ok \in BOOLEAN :
          /\ pc' = AfterForwardingHistory(ok)
          /\ IF ok
             THEN /\ \E evs \in FwdResponses : fwdEvents' = evs
                  /\ log' = log
             ELSE /\ fwdEvents' = fwdEvents
                  /\ log' = log \cup {LogRec("unable to obtain forwarding history", 0, 0)}
    /\ idx' = 1
    /\ UNCHANGED <<subjectiveChanView, pending, graphResult, queried,
                   invalidChannels, chanForwardHistory, reported, totalLoss>>

\* one iteration of the loop over the forwarding events
FoldStep ==
    /\ pc = "fold"
    /\ idx <= Len(fwdEvents)
    /\ chanForwardHistory' =
          FoldEvent(chanForwardHistory, invalidChannels, fwdEvents[idx])
    /\ idx' = idx + 1
    /\ UNCHANGED <<pc, subjectiveChanView, pending, graphResult, queried,
                   invalidChannels, fwdCalls, fwdEvents, reported, totalLoss,
                   log>>

\* the end of the fold: var totalLoss
StartReport ==
    /\ pc = "fold"
    /\ idx > Len(fwdEvents)
    /\ pc' = "report"
    /\ totalLoss' = 0
    /\ reported' = {}
    /\ UNCHANGED <<subjectiveChanView, pending, graphResult, queried,
                   invalidChannels, fwdCalls, fwdEvents, idx,
                   chanForwardHistory, log>>

\* one iteration of the loop over chanForwardHistory
ReportStep ==
    /\ pc = "report"
    /\ \E chanID \in (DOMAIN chanForwardHistory) \ reported :
          LET amtLost == chanForwardHistory[chanID]
          IN  /\ log' = log \cup {LogRec("FakeChannel resulted in loss of",
                                         chanID, amtLost)}
              /\ totalLoss' = totalLoss + amtLost
              /\ reported' = reported \cup {chanID}
    /\ UNCHANGED <<pc, subjectiveChanView, pending, graphResult, queried,
                   invalidChannels, fwdCalls, fwdEvents, idx,
                   chanForwardHistory>>

\* the last line of main
ReportTotal ==
    /\ pc = "report"
    /\ reported = DOMAIN chanForwardHistory
    /\ pc' = "done"
    /\ log' = log \cup {LogRec("Amount lost", totalLoss, 0)}
    /\ UNCHANGED <<subjectiveChanView, pending, graphResult, queried,
                   invalidChannels, fwdCalls, fwdEvents, idx,
                   chanForwardHistory, reported, totalLoss>>

Next ==
    \/ NewBasicClient
    \/ ListChannels
    \/ GetChanInfo
    \/ CheckInvalid
    \/ ForwardingHistory
    \/ FoldStep
    \/ StartReport
    \/ ReportStep
    \/ ReportTotal

Spec == Init /\ [][Next]_vars

(* --------------------- vocabulary of the properties ------------------- *)

\* a line of the given kind has been written
Logged(kind) == \E r \in log : r.kind = kind

ListingSucceeded == Logged("Obtaining candidate set")

ListingFailed == Logged("unable to obtain channels")

HistoryFailed == Logged("unable to obtain forwarding history")

\* the loop over subjectiveChanView has visited every key
DetectionDone == ListingSucceeded /\ pending = {}

\* the forwarding events have all been folded
FoldDone == pc \in {"report", "done"} /\ fwdCalls = 1

\* the audit ran through the loss computation to its last line
QuantifierDone == pc = "done" /\ fwdCalls = 1

\* the position is inside the loop body for fwdEvents[idx], and the step is taken
FoldsEvent == pc = "fold" /\ idx <= Len(fwdEvents) /\ idx' = idx + 1

RECURSIVE SumMap(_)
SumMap(m) ==
    IF DOMAIN m = {} THEN 0
    ELSE LET k == CHOOSE x \in DOMAIN m : TRUE
         IN  m[k] + SumMap([x \in DOMAIN m \ {k} |-> m[x]])

\* sum of (AmtIn - Fee) over the events of evs that came in through c
RECURSIVE InboundSum(_, _)
InboundSum(evs, c) ==
    IF evs = <<>> THEN 0
    ELSE LET n == Len(evs)
         IN  InboundSum(SubSeq(evs, 1, n - 1), c)
                + (IF evs[n].ChanIdIn = c THEN evs[n].AmtIn - evs[n].Fee ELSE 0)

\* the fold of a whole event sequence, from the empty ledger
RECURSIVE FoldAll(_, _)
FoldAll(inv, evs) ==
    IF evs = <<>> THEN EmptyMap
    ELSE LET n == Len(evs)
         IN  FoldEvent(FoldAll(inv, SubSeq(evs, 1, n - 1)), inv, evs[n])

Permuted(evs, p) == [i \in 1..Len(evs) |-> evs[p[i]]]

(* ------------------------------ C1 ------------------------------------ *)

\* C1: once the detector has processed every channel, a channel is in
\* invalidChannels iff it is a key of the subjective view and its own
\* capacity query failed or returned a capacity different from the
\* subjective one; no other channel's query result enters the condition.
\* While the detector runs, the same holds of the channels queried so far.
C1_InvalidIffFailedOrMismatch ==
    /\ \A c \in Chans :
          c \in invalidChannels <=>
             /\ c \in DOMAIN subjectiveChanView
             /\ c \in DOMAIN graphResult
             /\ \/ graphResult[c].err
                \/ graphResult[c].Capacity # subjectiveChanView[c]
    /\ DetectionDone => DOMAIN graphResult = DOMAIN subjectiveChanView

C1_Witness ==
    /\ DetectionDone
    /\ \E c, d \in DOMAIN subjectiveChanView :
          /\ graphResult[c].err
          /\ c \in invalidChannels
          /\ ~graphResult[d].err
          /\ graphResult[d].Capacity = subjectiveChanView[d]
          /\ d \notin invalidChannels

(* ------------------------------ C2 ------------------------------------ *)

EveryEventInboundInvalidOnly ==
    \A i \in 1..Len(fwdEvents) :
       /\ fwdEvents[i].ChanIdIn \in invalidChannels
       /\ fwdEvents[i].ChanIdOut \notin invalidChannels

\* C2: when every forwarding event comes in through an invalid channel and
\* leaves through a channel that is not invalid, the final ledger has
\* exactly one entry per invalid inbound channel, equal to minus the sum of
\* (AmtIn - Fee) over the events inbound on it, and totalLoss is the sum of
\* those entries.
C2_LedgerOfInboundLosses ==
    (QuantifierDone /\ EveryEventInboundInvalidOnly) =>
       /\ DOMAIN chanForwardHistory
             = {fwdEvents[i].ChanIdIn : i \in 1..Len(fwdEvents)}
       /\ \A c \in DOMAIN chanForwardHistory :
             chanForwardHistory[c] = -InboundSum(fwdEvents, c)
       /\ totalLoss = SumMap([c \in {fwdEvents[i].ChanIdIn : i \in 1..Len(fwdEvents)}
                                 |-> -InboundSum(fwdEvents, c)])

(* ------------------------------ C3 ------------------------------------ *)

\* C3: in every state the keys of chanForwardHistory are invalid channels.
C3_LedgerKeysAreInvalid ==
    DOMAIN chanForwardHistory \subseteq invalidChannels

(* ------------------------------ C4 ------------------------------------ *)

\* C4: when the detector has processed every channel and found none invalid,
\* the audit ends with "not affected": the forwarding history is never
\* requested, no ledger is built and no loss is computed or reported.
C4_NotAffectedSkipsQuantifier ==
    (DetectionDone /\ invalidChannels = {}) =>
       /\ pc \in {"detect", "done"}
       /\ pc = "done" => Logged("not affected")
       /\ fwdCalls = 0
       /\ fwdEvents = <<>>
       /\ chanForwardHistory = EmptyMap
       /\ totalLoss = 0
       /\ ~Logged("Quantifying amount lost")
       /\ ~Logged("FakeChannel resulted in loss of")
       /\ ~Logged("Amount lost")

C4_Witness ==
    /\ pc = "done"
    /\ DOMAIN subjectiveChanView = Chans
    /\ invalidChannels = {}
    /\ Logged("not affected")

(* ------------------------------ C5 ------------------------------------ *)

\* C5: folding one event whose two channels are distinct changes the entry
\* of an invalid inbound channel by exactly -(AmtIn - Fee) and the entry of
\* an invalid outbound channel by exactly +AmtOut, whatever the ledger held.
C5_FoldDeltas ==
    [][ (FoldsEvent /\ fwdEvents[idx].ChanIdIn # fwdEvents[idx].ChanIdOut) =>
          LET ev == fwdEvents[idx]
          IN  /\ ev.ChanIdIn \in invalidChannels =>
                   /\ ev.ChanIdIn \in DOMAIN chanForwardHistory'
                   /\ chanForwardHistory'[ev.ChanIdIn]
                         = MapGet(chanForwardHistory, ev.ChanIdIn)
                              - (ev.AmtIn - ev.Fee)
              /\ ev.ChanIdOut \in invalidChannels =>
                   /\ ev.ChanIdOut \in DOMAIN chanForwardHistory'
                   /\ chanForwardHistory'[ev.ChanIdOut]
                         = MapGet(chanForwardHistory, ev.ChanIdOut)
                              + ev.AmtOut ]_vars

\* the second event has been folded onto an entry the first one left
C5_Witness ==
    /\ pc = "fold"
    /\ idx = 3
    /\ fwdEvents[1].ChanIdIn # fwdEvents[1].ChanIdOut
    /\ fwdEvents[2] = [ChanIdIn |-> fwdEvents[1].ChanIdOut,
                       ChanIdOut |-> fwdEvents[1].ChanIdIn,
                       AmtIn |-> 1000, Fee |-> 10, AmtOut |-> 990]
    /\ invalidChannels = {fwdEvents[1].ChanIdIn, fwdEvents[1].ChanIdOut}
    /\ chanForwardHistory[fwdEvents[2].ChanIdIn]
          = fwdEvents[1].AmtOut - 990
    /\ chanForwardHistory[fwdEvents[2].ChanIdOut]
          = 990 - (fwdEvents[1].AmtIn - fwdEvents[1].Fee)

(* ------------------------------ C6 ------------------------------------ *)

\* C6: folding an event whose inbound and outbound channels are both
\* outside invalidChannels leaves the ledger as it was: no entry appears,
\* none changes, and the total is untouched.
C6_UninvolvedEventIsSkipped ==
    [][ ( /\ FoldsEvent
          /\ fwdEvents[idx].ChanIdIn \notin invalidChannels
          /\ fwdEvents[idx].ChanIdOut \notin invalidChannels ) =>
          /\ chanForwardHistory' = chanForwardHistory
          /\ totalLoss' = totalLoss
          /\ log' = log ]_vars

C6_Witness ==
    /\ pc = "fold"
    /\ idx = 3
    /\ fwdEvents[1].ChanIdIn \in invalidChannels
    /\ fwdEvents[2].ChanIdIn \notin invalidChannels
    /\ fwdEvents[2].ChanIdOut \notin invalidChannels
    /\ chanForwardHistory = FoldAll(invalidChannels, <<fwdEvents[1]>>)
    /\ chanForwardHistory # EmptyMap

(* ------------------------------ C7 ------------------------------------ *)

\* C7: for the invalidChannels found, folding any permutation of the
\* forwarding events gives the ledger the run has built (same keys, same
\* values), and the total the run reports is the sum of that ledger.
C7_FoldOrderIndependent ==
    /\ FoldDone =>
          \A p \in Permutations(1..Len(fwdEvents)) :
             FoldAll(invalidChannels, Permuted(fwdEvents, p))
                = chanForwardHistory
    /\ QuantifierDone =>
          \A p \in Permutations(1..Len(fwdEvents)) :
             /\ totalLoss
                   = SumMap(FoldAll(invalidChannels, Permuted(fwdEvents, p)))
             /\ LogRec("Amount lost", totalLoss, 0) \in log

C7_Witness ==
    /\ QuantifierDone
    /\ Len(fwdEvents) = 2
    /\ fwdEvents[1] # fwdEvents[2]
    /\ fwdEvents[1].ChanIdOut = fwdEvents[2].ChanIdOut
    /\ ~SkipEvent(invalidChannels, fwdEvents[1])
    /\ ~SkipEvent(invalidChannels, fwdEvents[2])
    /\ chanForwardHistory = FoldAll(invalidChannels, <<fwdEvents[2], fwdEvents[1]>>)

(* ------------------------------ C8 ------------------------------------ *)

\* C8: when the listing call succeeded, a channel is queried once when the
\* loop visits it and never again, a channel outside the view is never
\* queried, the loop goes on to the end after a failed query, nothing
\* aborts the audit before the forwarding-history call, and a channel
\* whose query failed is in invalidChannels.
C8_EachChannelQueriedOnce ==
    ListingSucceeded =>
       /\ \A c \in Chans :
             /\ c \notin DOMAIN subjectiveChanView => queried[c] = 0
             /\ c \in pending => queried[c] = 0
             /\ (c \in DOMAIN subjectiveChanView /\ c \notin pending)
                   => queried[c] = 1
             /\ (c \in DOMAIN graphResult /\ graphResult[c].err)
                   => c \in invalidChannels
       /\ pc # "detect" => pending = {}
       /\ pc = "fatal" => fwdCalls = 1

\* the first query failed and the second channel was queried all the same
C8_Witness ==
    /\ DetectionDone
    /\ pc = "history"
    /\ DOMAIN subjectiveChanView = Chans
    /\ \A c \in Chans : queried[c] = 1
    /\ \E c \in Chans : graphResult[c].err /\ c \in invalidChannels
    /\ \E c \in Chans : ~graphResult[c].err

(* ------------------------------ C9 ------------------------------------ *)

NoLossOutput ==
    /\ chanForwardHistory = EmptyMap
    /\ ~Logged("FakeChannel resulted in loss of")
    /\ ~Logged("Amount lost")

NoInvalidChannelReport ==
    /\ ~Logged("unable to obtain graph channel")
    /\ ~Logged("FAKE CHANNEL FOUND")
    /\ ~Logged("Num invalid channels found")
    /\ ~Logged("not affected")
    /\ ~Logged("Quantifying amount lost")

AfterListingFailure ==
    ListingFailed =>
       /\ pc = "fatal"
       /\ \A c \in Chans : queried[c] = 0
       /\ invalidChannels = {}
       /\ fwdCalls = 0
       /\ NoInvalidChannelReport
       /\ NoLossOutput

EveryFeeIsInMinusOut ==
    \A i \in 1..Len(fwdEvents) :
       fwdEvents[i].Fee = fwdEvents[i].AmtIn - fwdEvents[i].AmtOut

====
